---- MODULE Spec2Model ----
(***************************************************************************)
(* Discrete-event engine of the open queueing network (SimulationModel in  *)
(* simulation_gui.py): four single-server FIFO stations, a future event    *)
(* list kept sorted by time, probabilistic routing 1->2/3, 2->4, 3->4,     *)
(* 4->EXIT/3, and warm-up aware statistics.                                *)
(*                                                                         *)
(* Time is counted in integer ticks (one tick = 0.5 simulated time units), *)
(* routing draws r in [0,1) in hundredths.  Every random draw is an input  *)
(* of the step that makes it.                                              *)
(***************************************************************************)
EXTENDS Integers, Sequences, FiniteSets, TLC

\* ---------------------------------------------------------------- bounds
MaxSteps == 5          \* events processed per run when draws are free
MaxWarmup == 2         \* largest configured warm-up threshold
MaxTarget == 5         \* largest configured completion target
MaxDraw == 1           \* largest free exponential draw, in ticks
MaxStubSteps == 64     \* events processed per run under a fixed-draw source
MaxFeedback == 1       \* draws in a row that a fair source keeps from EXIT

\* ------------------------------------------------------- configuration
Stations == 1..4

EXIT == 0

\* ---------------------------------------------------------------- state
VARIABLES clock, events, queues, server_busy, stats, completed_count,
          total_response_time, last_update, cust_counter, warmup_count,
          is_warming_up, steady_start_time,
          WARM_UP_CUSTOMERS, MAX_COMPLETED, config,
          rng, ret, nsteps, log, reset_calls, ana

model_vars == <<clock, events, queues, server_busy, stats, completed_count,
                total_response_time, last_update, cust_counter, warmup_count,
                is_warming_up, steady_start_time, reset_calls>>

config_vars == <<WARM_UP_CUSTOMERS, MAX_COMPLETED, config, rng>>

vars == <<model_vars, config_vars, ret, nsteps, log, ana>>

\* the CONFIGURATION section of the program: rates per time unit,
\* probabilities in hundredths
DefaultConfig ==
    [LAMBDA_SOURCE_RATE |-> 4,
     MU_RATES |-> <<5, 3, 3, 5>>,
     PROBS |-> [p1_to_2 |-> 40, p1_to_3 |-> 60, p4_exit |-> 90, p4_to_3 |-> 10]]

LAMBDA_SOURCE_RATE == config.LAMBDA_SOURCE_RATE

MU_RATES == config.MU_RATES

PROBS == config.PROBS

\* ----------------------------------------------------- Customer, Event
Customer(id, arrival_time) == [id |-> id, arrival_time |-> arrival_time]

Event(time, type, customer, queue_id) ==
    [time |-> time, type |-> type, customer |-> customer, queue_id |-> queue_id]

\* step() returns (None, "Simulation Finished") when it processes nothing
NoEvent == Event(0, "NONE", Customer(0, 0), 0)

Event_lt_reversed(a, b) == a.time > b.time

Event_lt(a, b) == a.time < b.time

\* list.sort() is a stable sort driven by Event.__lt__ only
insort(sorted, e) ==
    LET k == Cardinality({i \in 1..Len(sorted) : ~Event_lt(e, sorted[i])})
    IN  SubSeq(sorted, 1, k) \o <<e>> \o SubSeq(sorted, k + 1, Len(sorted))

RECURSIVE sort(_)
sort(s) ==
    IF s = <<>> THEN <<>>
    ELSE insort(sort(SubSeq(s, 1, Len(s) - 1)), s[Len(s)])

schedule_nosort(evs, event) == Append(evs, event)

schedule(evs, event) == sort(Append(evs, event))

\* ------------------------------------------------------ random source
Draws == 0..MaxDraw

RDraws == {39, 40, 89, 90}

interarrival_draws == IF rng.mode = "free" THEN Draws ELSE {rng.ia}

service_draws == IF rng.mode = "free" THEN Draws ELSE {rng.svc}

\* a fair routing source: any draw at stations 1..3; at station 4 a draw
\* below p4_exit comes after at most MaxFeedback draws above it in a row
FairDraws ==
    IF Head(events).queue_id = 4 /\ rng.fb >= MaxFeedback
    THEN {20} ELSE {20, 90}

routing_draws ==
    IF rng.mode = "stub" THEN {rng.r}
    ELSE IF rng.mode = "fair" THEN FairDraws ELSE RDraws

\* ------------------------------------------------------------- engine
ZeroStats ==
    [i \in Stations |->
        [L_accum |-> 0, Q_accum |-> 0, Busy_accum |-> 0,
         Arrivals |-> 0, Departures |-> 0]]

reset_not_warming(first_ia) ==
    [clock |-> 0,
     events |-> schedule(<<>>, Event(first_ia, "ARRIVAL", Customer(1, 0), 1)),
     queues |-> [i \in Stations |-> <<>>],
     server_busy |-> [i \in Stations |-> FALSE],
     stats |-> ZeroStats,
     completed_count |-> 0,
     total_response_time |-> 0,
     last_update |-> 0,
     cust_counter |-> 1,
     warmup_count |-> 0,
     is_warming_up |-> FALSE,
     steady_start_time |-> 0,
     reset_calls |-> 0]

reset(first_ia) ==
    [clock |-> 0,
     events |-> schedule(<<>>, Event(first_ia, "ARRIVAL", Customer(1, 0), 1)),
     queues |-> [i \in Stations |-> <<>>],
     server_busy |-> [i \in Stations |-> FALSE],
     stats |-> ZeroStats,
     completed_count |-> 0,
     total_response_time |-> 0,
     last_update |-> 0,
     cust_counter |-> 1,
     warmup_count |-> 0,
     is_warming_up |-> TRUE,
     steady_start_time |-> 0,
     reset_calls |-> 0]

max(a, b) == IF a >= b THEN a ELSE b

accumulate_counts_in_service(m) ==
    LET delta == m.clock - m.last_update
    IN  [m EXCEPT
          !.stats = [i \in Stations |->
              LET n == Len(m.queues[i])
                  q_len == IF m.server_busy[i] THEN n ELSE 0
              IN  [m.stats[i] EXCEPT
                     !.L_accum = @ + n * delta,
                     !.Q_accum = @ + q_len * delta,
                     !.Busy_accum = @ + (IF m.server_busy[i] THEN delta ELSE 0)]],
          !.last_update = m.clock]

accumulate(m) ==
    LET delta == m.clock - m.last_update
    IN  [m EXCEPT
          !.stats = [i \in Stations |->
              LET n == Len(m.queues[i])
                  q_len == IF m.server_busy[i] THEN max(0, n - 1) ELSE 0
              IN  [m.stats[i] EXCEPT
                     !.L_accum = @ + n * delta,
                     !.Q_accum = @ + q_len * delta,
                     !.Busy_accum = @ + (IF m.server_busy[i] THEN delta ELSE 0)]],
          !.last_update = m.clock]

update_accumulators_always(m) == accumulate(m)

update_accumulators(m) ==
    IF m.is_warming_up THEN [m EXCEPT !.last_update = m.clock]
    ELSE accumulate(m)

reset_stats_post_warmup_clears_queues(m) ==
    [m EXCEPT !.stats = ZeroStats,
              !.queues = [i \in Stations |-> <<>>],
              !.server_busy = [i \in Stations |-> FALSE],
              !.completed_count = 0,
              !.total_response_time = 0,
              !.last_update = m.clock,
              !.is_warming_up = FALSE,
              !.steady_start_time = m.clock,
              !.reset_calls = @ + 1]

reset_stats_post_warmup_keepflag(m) ==
    [m EXCEPT !.stats = ZeroStats,
              !.completed_count = 0,
              !.total_response_time = 0,
              !.last_update = m.clock,
              !.steady_start_time = m.clock,
              !.reset_calls = @ + 1]

reset_stats_post_warmup(m) ==
    [m EXCEPT !.stats = ZeroStats,
              !.completed_count = 0,
              !.total_response_time = 0,
              !.last_update = m.clock,
              !.is_warming_up = FALSE,
              !.steady_start_time = m.clock,
              !.reset_calls = @ + 1]

handle_arrival_nocount(m, event, svc_time) ==
    LET q == event.queue_id
        m1 == [m EXCEPT !.queues[q] = Append(@, event.customer)]
    IN  IF ~m1.server_busy[q]
        THEN [m1 EXCEPT !.server_busy[q] = TRUE,
                        !.events = schedule(@, Event(m1.clock + svc_time,
                                       "DEPARTURE", event.customer, q))]
        ELSE m1

handle_arrival_always_schedules(m, event, svc_time) ==
    LET q == event.queue_id
        m1 == [m EXCEPT !.queues[q] = Append(@, event.customer),
                        !.stats[q].Arrivals = @ + 1]
    IN  [m1 EXCEPT !.server_busy[q] = TRUE,
                   !.events = schedule(@, Event(m1.clock + svc_time,
                                  "DEPARTURE", event.customer, q))]

handle_arrival(m, event, svc_time) ==
    LET q == event.queue_id
        m1 == [m EXCEPT !.queues[q] = Append(@, event.customer),
                        !.stats[q].Arrivals = @ + 1]
    IN  IF ~m1.server_busy[q]
        THEN [m1 EXCEPT !.server_busy[q] = TRUE,
                        !.events = schedule(@, Event(m1.clock + svc_time,
                                       "DEPARTURE", event.customer, q))]
        ELSE m1

route_inclusive(q, r) ==
    CASE q = 1 -> IF r <= PROBS.p1_to_2 THEN 2 ELSE 3
      [] q = 2 -> 4
      [] q = 3 -> 4
      [] q = 4 -> IF r <= PROBS.p4_exit THEN EXIT ELSE 3

route_swapped(q, r) ==
    CASE q = 1 -> IF r < PROBS.p1_to_2 THEN 3 ELSE 2
      [] q = 2 -> 4
      [] q = 3 -> 4
      [] q = 4 -> IF r < PROBS.p4_exit THEN EXIT ELSE 3

route(q, r) ==
    CASE q = 1 -> IF r < PROBS.p1_to_2 THEN 2 ELSE 3
      [] q = 2 -> 4
      [] q = 3 -> 4
      [] q = 4 -> IF r < PROBS.p4_exit THEN EXIT ELSE 3

exit_customer_counts_warmup(m, c) ==
    IF m.is_warming_up
    THEN LET m1 == [m EXCEPT !.warmup_count = @ + 1,
                             !.completed_count = @ + 1]
         IN  IF m1.warmup_count >= WARM_UP_CUSTOMERS
             THEN reset_stats_post_warmup(m1)
             ELSE m1
    ELSE [m EXCEPT !.completed_count = @ + 1,
                   !.total_response_time = @ + (m.clock - c.arrival_time)]

exit_customer(m, c) ==
    IF m.is_warming_up
    THEN LET m1 == [m EXCEPT !.warmup_count = @ + 1]
         IN  IF m1.warmup_count >= WARM_UP_CUSTOMERS
             THEN reset_stats_post_warmup(m1)
             ELSE m1
    ELSE [m EXCEPT !.completed_count = @ + 1,
                   !.total_response_time = @ + (m.clock - c.arrival_time)]

restart_service_last(m, q, svc_time) ==
    IF m.queues[q] # <<>>
    THEN [m EXCEPT !.server_busy[q] = TRUE,
                   !.events = schedule(@, Event(m.clock + svc_time,
                                  "DEPARTURE", m.queues[q][Len(m.queues[q])], q))]
    ELSE [m EXCEPT !.server_busy[q] = FALSE]

restart_service_stays_busy(m, q, svc_time) ==
    IF m.queues[q] # <<>>
    THEN [m EXCEPT !.server_busy[q] = TRUE,
                   !.events = schedule(@, Event(m.clock + svc_time,
                                  "DEPARTURE", Head(m.queues[q]), q))]
    ELSE m

restart_service(m, q, svc_time) ==
    IF m.queues[q] # <<>>
    THEN [m EXCEPT !.server_busy[q] = TRUE,
                   !.events = schedule(@, Event(m.clock + svc_time,
                                  "DEPARTURE", Head(m.queues[q]), q))]
    ELSE [m EXCEPT !.server_busy[q] = FALSE]

handle_departure_keeps_customer(m, event, r, svc_in, svc_next) ==
    LET q == event.queue_id
        c == Head(m.queues[q])
        m1 == [m EXCEPT !.stats[q].Departures = @ + 1]
        next_q == route(q, r)
        m2 == IF next_q = EXIT
              THEN exit_customer([m1 EXCEPT !.queues[q] = Tail(@)], c)
              ELSE handle_arrival(m1, Event(m1.clock, "ARRIVAL", c, next_q), svc_in)
    IN  restart_service(m2, q, svc_next)

handle_departure(m, event, r, svc_in, svc_next) ==
    LET q == event.queue_id
        c == Head(m.queues[q])
        m1 == [m EXCEPT !.queues[q] = Tail(@),
                        !.stats[q].Departures = @ + 1]
        next_q == route(q, r)
        m2 == IF next_q = EXIT
              THEN exit_customer(m1, c)
              ELSE handle_arrival(m1, Event(m1.clock, "ARRIVAL", c, next_q), svc_in)
    IN  restart_service(m2, q, svc_next)

next_external_stops(m, event, ia) ==
    IF event.queue_id = 1 /\ event.customer.id = m.cust_counter
    THEN [m EXCEPT !.cust_counter = @ + 1]
    ELSE m

next_external_keeps_counter(m, event, ia) ==
    IF event.queue_id = 1 /\ event.customer.id = m.cust_counter
    THEN [m EXCEPT !.events = schedule(@, Event(m.clock + ia, "ARRIVAL",
                                  Customer(m.cust_counter + 1, m.clock), 1))]
    ELSE m

next_external(m, event, ia) ==
    IF event.queue_id = 1 /\ event.customer.id = m.cust_counter
    THEN LET m1 == [m EXCEPT !.cust_counter = @ + 1]
         IN  [m1 EXCEPT !.events = schedule(@, Event(m1.clock + ia, "ARRIVAL",
                                       Customer(m1.cust_counter, m1.clock), 1))]
    ELSE m

finished_off_by_one(m) == m.events = <<>> \/ m.completed_count > MAX_COMPLETED

finished(m) == m.events = <<>> \/ m.completed_count >= MAX_COMPLETED

step(m, ia, r, svc, svc_next) ==
    LET event == Head(m.events)
        m1 == [m EXCEPT !.events = Tail(@)]
        m2 == update_accumulators(m1)
        m3 == [m2 EXCEPT !.clock = event.time]
    IN  IF event.type = "ARRIVAL"
        THEN next_external(handle_arrival(m3, event, svc), event, ia)
        ELSE handle_departure(m3, event, r, svc, svc_next)

\* ------------------------------------------------- analytical model
\* rates are held as integer multiples of 1/RateScale, metrics as fractions
RateScale == 900

Rat(n, d) == [num |-> n, den |-> d]

RatSub(a, b) == Rat(a.num * b.den - b.num * a.den, a.den * b.den)

NoAnalysis == [status |-> "none", eff_lam |-> <<>>, metrics |-> <<>>]

\* effective rates: L1 = lam; L2 = 0.4 * L1; L4 = L1 / 0.9;
\* L3 = 0.6 * L1 + 0.1 * L4
effective_rates(lam) ==
    LET L1 == lam * RateScale
        L2 == (40 * L1) \div 100
        L4 == (L1 * 100) \div 90
        L3 == (60 * L1) \div 100 + (10 * L4) \div 100
    IN  <<L1, L2, L3, L4>>

\* rho = l / m; L = rho / (1 - rho); Lq = L - rho; W = 1 / (m - l);
\* Wq = W - 1 / m
station_metrics(l, m) ==
    LET rho == Rat(l, m)
        L_val == Rat(l, m - l)
        W_val == Rat(RateScale, m - l)
    IN  [Rho |-> rho, L |-> L_val, Lq |-> RatSub(L_val, rho),
         W |-> W_val, Wq |-> RatSub(W_val, Rat(RateScale, m))]

\* rho / (1 - rho) and 1 / (m - l) raise ZeroDivisionError when l = m; the
\* exception leaves finish_and_compare without any metrics
analytical_model ==
    LET eff_lam == effective_rates(LAMBDA_SOURCE_RATE)
        mu(i) == MU_RATES[i] * RateScale
    IN  IF \E i \in Stations : eff_lam[i] = mu(i)
        THEN [status |-> "ZeroDivisionError", eff_lam |-> <<>>, metrics |-> <<>>]
        ELSE [status |-> "ok", eff_lam |-> eff_lam,
              metrics |-> [i \in Stations |-> station_metrics(eff_lam[i], mu(i))]]

\* ------------------------------------------------------------ actions
Self ==
    [clock |-> clock, events |-> events, queues |-> queues,
     server_busy |-> server_busy, stats |-> stats,
     completed_count |-> completed_count,
     total_response_time |-> total_response_time,
     last_update |-> last_update, cust_counter |-> cust_counter,
     warmup_count |-> warmup_count, is_warming_up |-> is_warming_up,
     steady_start_time |-> steady_start_time, reset_calls |-> reset_calls]

Assign(m) ==
    /\ clock' = m.clock
    /\ events' = m.events
    /\ queues' = m.queues
    /\ server_busy' = m.server_busy
    /\ stats' = m.stats
    /\ completed_count' = m.completed_count
    /\ total_response_time' = m.total_response_time
    /\ last_update' = m.last_update
    /\ cust_counter' = m.cust_counter
    /\ warmup_count' = m.warmup_count
    /\ is_warming_up' = m.is_warming_up
    /\ steady_start_time' = m.steady_start_time
    /\ reset_calls' = m.reset_calls

Construct(m) ==
    /\ clock = m.clock
    /\ events = m.events
    /\ queues = m.queues
    /\ server_busy = m.server_busy
    /\ stats = m.stats
    /\ completed_count = m.completed_count
    /\ total_response_time = m.total_response_time
    /\ last_update = m.last_update
    /\ cust_counter = m.cust_counter
    /\ warmup_count = m.warmup_count
    /\ is_warming_up = m.is_warming_up
    /\ steady_start_time = m.steady_start_time
    /\ reset_calls = m.reset_calls
    /\ ret = NoEvent
    /\ nsteps = 0
    /\ log = <<>>
    /\ ana = NoAnalysis

FreeRng == [mode |-> "free", ia |-> 0, svc |-> 0, r |-> 0]

\* fixed-draw sources: every inter-arrival draw ia, every service draw svc,
\* every routing draw r (20: 1->2 and 4->EXIT; 40: 1->3 and 4->EXIT;
\* 90: 1->3 and 4->3, a run in which no customer ever leaves)
StubRngs == [mode : {"stub"}, ia : {1, 2}, svc : {1, 2}, r : {20, 40, 90}]

\* free draws are explored for the two extreme thresholds only
InitFree ==
    /\ rng = FreeRng
    /\ config = DefaultConfig
    /\ WARM_UP_CUSTOMERS \in {0, MaxWarmup}
    /\ MAX_COMPLETED = MaxTarget
    /\ \E ia \in interarrival_draws : Construct(reset(ia))

InitStub ==
    /\ rng \in StubRngs
    /\ config = DefaultConfig
    /\ WARM_UP_CUSTOMERS \in 0..MaxWarmup
    /\ MAX_COMPLETED \in 1..MaxTarget
    /\ \E ia \in interarrival_draws : Construct(reset(ia))

Init == InitFree \/ InitStub

\* other contents of the CONFIGURATION section: valid routing tables
\* (p1_to_2 + p1_to_3 = 100, p4_exit + p4_to_3 = 100, p4_exit > 0), source
\* rates and service rates
Tables ==
    {[p1_to_2 |-> 40, p1_to_3 |-> 60, p4_exit |-> 90, p4_to_3 |-> 10],
     [p1_to_2 |-> 50, p1_to_3 |-> 50, p4_exit |-> 80, p4_to_3 |-> 20],
     [p1_to_2 |-> 30, p1_to_3 |-> 70, p4_exit |-> 100, p4_to_3 |-> 0]}

Configs ==
    [LAMBDA_SOURCE_RATE : {2, 4, 5, 6},
     MU_RATES : {<<5, 3, 3, 5>>, <<8, 4, 6, 8>>},
     PROBS : Tables]

InitConfigured ==
    /\ rng \in StubRngs
    /\ config \in Configs
    /\ WARM_UP_CUSTOMERS = 0
    /\ MAX_COMPLETED = 1
    /\ \E ia \in interarrival_draws : Construct(reset(ia))

\* run-to-completion under positive draws and fair routing at station 4
FairRngs == [mode : {"fair"}, ia : {1, 2}, svc : {1, 2}, r : {0}, fb : {0}]

InitLive ==
    /\ rng \in FairRngs
    /\ config = DefaultConfig
    /\ WARM_UP_CUSTOMERS \in {0, 1}
    /\ MAX_COMPLETED \in {1, 2}
    /\ \E ia \in interarrival_draws : Construct(reset(ia))

\* the routing source after a draw r made for event: the fair source
\* counts the draws at station 4 that did not choose EXIT, in a row
drawn(event, r) ==
    IF rng.mode = "fair" /\ event.type = "DEPARTURE" /\ event.queue_id = 4
    THEN [rng EXCEPT !.fb = IF r < PROBS.p4_exit THEN 0 ELSE @ + 1]
    ELSE rng

StepBound == nsteps < (IF rng.mode = "free" THEN MaxSteps ELSE MaxStubSteps)

\* the draws a step does not make are fixed at 0
IfDrawn(used, draws) == IF used THEN draws ELSE {0}

Step ==
    /\ ~finished(Self)
    /\ StepBound
    /\ LET event == Head(events)
           arr == event.type = "ARRIVAL"
           q == event.queue_id
       IN  \E ia \in IfDrawn(arr, interarrival_draws),
              r \in IfDrawn(~arr, routing_draws) :
           LET next_q == IF arr THEN q ELSE route(q, r)
           IN  \E svc \in IfDrawn(next_q # EXIT /\ ~server_busy[next_q], service_draws),
                  svc_next \in IfDrawn(~arr /\ Len(queues[q]) > 1, service_draws) :
                  /\ \E m \in {step(Self, ia, r, svc, svc_next)} : Assign(m)
                  /\ rng' = drawn(event, r)
    /\ ret' = Head(events)
    /\ nsteps' = nsteps + 1
    /\ log' = IF rng.mode = "stub" THEN Append(log, Head(events)) ELSE log
    /\ UNCHANGED <<WARM_UP_CUSTOMERS, MAX_COMPLETED, config, ana>>

StepFinished ==
    /\ finished(Self)
    /\ ret' = NoEvent
    /\ UNCHANGED <<model_vars, config_vars, nsteps, log, ana>>

\* finish_and_compare: the run loop has ended, the analytical part runs
FinishAndCompare ==
    /\ finished(Self)
    /\ ana = NoAnalysis
    /\ ana' = analytical_model
    /\ UNCHANGED <<model_vars, config_vars, ret, nsteps, log>>

Reset ==
    /\ nsteps > 0
    /\ \E ia \in interarrival_draws : \E m \in {reset(ia)} : Assign(m)
    /\ ret' = NoEvent
    /\ nsteps' = 0
    /\ log' = <<>>
    /\ ana' = NoAnalysis
    /\ UNCHANGED config_vars

Next == Step \/ StepFinished \/ FinishAndCompare \/ Reset

Spec == Init /\ [][Next]_vars

\* the engine and the analytical model under other configurations
SpecConfigured == InitConfigured /\ [][Next]_vars

\* run_instant followed by the report: step() is called again as long as
\* the loop condition holds, and reset() is never called
NextRun == Step \/ StepFinished \/ FinishAndCompare

\* the loop of run_instant: while the run is not finished, step() is called
run_instant == ~finished(Self) /\ StepBound /\ nsteps' = nsteps + 1

SpecLive == InitLive /\ [][NextRun]_vars /\ WF_nsteps(run_instant)

\* ============================================================ properties
\* a step() call that processed an event
IsStep == nsteps' = nsteps + 1

\* the step in which reset_stats_post_warmup ran
IsResetStep == IsStep /\ is_warming_up /\ ~is_warming_up'

Imbalance(s) == stats[s].Arrivals - stats[s].Departures - Len(queues[s])

\* C1 (as stated): in every reachable state, also after the warm-up statistics
\* reset, Arrivals - Departures of every station equals its queue length.
C1_Conservation ==
    \A s \in Stations :
        stats[s].Arrivals - stats[s].Departures = Len(queues[s])

\* C1 (amended): Arrivals - Departures equals the queue length in every state
\* up to the warm-up statistics reset; the reset zeroes both counters and
\* keeps the queued customers, and every step other than the reset step
\* leaves Arrivals - Departures - queue length of every station unchanged.
C1_ConservationModuloReset ==
    /\ [](is_warming_up => \A s \in Stations : Imbalance(s) = 0)
    /\ [][(IsStep /\ ~IsResetStep) =>
             \A s \in Stations : Imbalance(s)' = Imbalance(s)]_vars

C1_Witness ==
    /\ ~is_warming_up
    /\ \E s \in Stations :
          /\ stats[s].Arrivals > 0
          /\ stats[s].Departures > 0
          /\ Imbalance(s) < 0

\* C2: every step taken once warm-up has ended adds (pre-event station
\* state) x (popped event's time - previous event's time) to L_accum, Q_accum
\* and Busy_accum of every station, and leaves last_update equal to clock.
C2_AccumulatorsIntegrateElapsed ==
    [][(IsStep /\ ~is_warming_up) =>
          /\ last_update' = clock'
          /\ \A s \in Stations :
               LET n == Len(queues[s])
                   elapsed == clock' - clock
               IN  /\ stats'[s].L_accum = stats[s].L_accum + n * elapsed
                   /\ stats'[s].Q_accum = stats[s].Q_accum + max(0, n - 1) * elapsed
                   /\ stats'[s].Busy_accum = stats[s].Busy_accum
                          + (IF server_busy[s] THEN elapsed ELSE 0)]_vars

\* C3: while warmup_count is below the threshold every time-weighted
\* accumulator is zero whatever time has elapsed, and right after the step
\* that reaches the threshold every accumulator and counter is zero and
\* steady_start_time equals the clock of that step.
C3_WarmupIsolation ==
    /\ [](warmup_count < WARM_UP_CUSTOMERS =>
            \A s \in Stations : /\ stats[s].L_accum = 0
                                /\ stats[s].Q_accum = 0
                                /\ stats[s].Busy_accum = 0)
    /\ [][IsResetStep =>
            /\ stats' = ZeroStats
            /\ completed_count' = 0
            /\ total_response_time' = 0
            /\ steady_start_time' = clock']_vars

C3_Witness ==
    /\ ~is_warming_up
    /\ ret.type = "DEPARTURE" /\ ret.queue_id = 4
    /\ stats[4].Departures = 0
    /\ steady_start_time = clock
    /\ clock > 0
    /\ \E s \in Stations : queues[s] # <<>>

\* the deterministic trace scenario: inter-arrival 1.0 (2 ticks), service 0.5
\* (1 tick), routing draw 0.2, warm-up threshold 0, completion target 5
Scenario ==
    /\ rng = [mode |-> "stub", ia |-> 2, svc |-> 1, r |-> 20]
    /\ WARM_UP_CUSTOMERS = 0
    /\ MAX_COMPLETED = 5

ScenarioDone == Scenario /\ finished(Self)

LogOf(id) == SelectSeq(log, LAMBDA e : e.customer.id = id)

Arrivals_in_log == SelectSeq(log, LAMBDA e : e.type = "ARRIVAL")

HeadDeparture(s) ==
    \E i \in 1..Len(events) :
        /\ events[i].type = "DEPARTURE"
        /\ events[i].queue_id = s
        /\ events[i].customer = Head(queues[s])

\* C5: between steps, server_busy[s] holds exactly when queues[s] is
\* non-empty and a DEPARTURE event for station s and the head customer of
\* queues[s] is in the future event list.
C5_StationInvariant ==
    \A s \in Stations :
        server_busy[s] <=> (queues[s] # <<>> /\ HeadDeparture(s))

C5_Witness ==
    \E s \in Stations :
        /\ ret.type = "DEPARTURE" /\ ret.queue_id = s
        /\ server_busy[s]
        /\ \E t \in Stations : ~server_busy[t] /\ stats[t].Departures > 0

Departures_of(s) ==
    {i \in 1..Len(events) :
        events[i].type = "DEPARTURE" /\ events[i].queue_id = s}

\* C6: the future event list never holds more than one DEPARTURE event for
\* the same station.
C6_OneDeparturePerStation ==
    \A s \in Stations : Cardinality(Departures_of(s)) <= 1

C6_Witness ==
    /\ ret.type = "DEPARTURE"
    /\ Cardinality(Departures_of(ret.queue_id)) = 1
    /\ \E t \in Stations \ {ret.queue_id} :
          /\ Cardinality(Departures_of(t)) = 1
          /\ queues[t][Len(queues[t])] = ret.customer

\* C7: the customer of every processed ARRIVAL event (the entry into the
\* network at station 1) carries arrival_time equal to the clock of that step.
C7_ArrivalTimeIsEntryClock ==
    ret.type = "ARRIVAL" => ret.customer.arrival_time = clock

\* C8: the clock never decreases across a step.
C8_ClockMonotone == [][IsStep => clock' >= clock]_vars

C8_Witness ==
    /\ ret.type = "DEPARTURE"
    /\ clock > 0
    /\ events # <<>> /\ Head(events).time = clock
    /\ \E s \in Stations : Len(queues[s]) > 1

\* C9: the event a step pops has the smallest time of all pending events, and
\* successive popped events have non-decreasing times.
C9_ExtractionOrder ==
    [][IsStep =>
          /\ \A i \in 1..Len(events) : ret'.time <= events[i].time
          /\ ret.type # "NONE" => ret.time <= ret'.time]_vars

C9_Witness ==
    /\ ret.type # "NONE"
    /\ Len(events) >= 3
    /\ events[1].time = events[2].time
    /\ events[2].time < events[3].time

\* C10: is_warming_up holds from construction until the exit step in which
\* warmup_count is found to have reached the threshold, never again after
\* it, and reset_stats_post_warmup runs exactly once, in that step.
C10_WarmupEndsOnce ==
    /\ [](nsteps = 0 => is_warming_up)
    /\ [](is_warming_up <=> warmup_count < max(1, WARM_UP_CUSTOMERS))
    /\ [](reset_calls = IF is_warming_up THEN 0 ELSE 1)
    /\ [][(IsStep /\ ~is_warming_up) => ~is_warming_up']_vars
    /\ [][(IsStep /\ reset_calls' # reset_calls) =>
             /\ IsResetStep
             /\ warmup_count' >= WARM_UP_CUSTOMERS
             /\ warmup_count = warmup_count' - 1]_vars

C10_Witness ==
    /\ ~is_warming_up
    /\ reset_calls = 1
    /\ completed_count > 0
    /\ WARM_UP_CUSTOMERS = 2

\* the physical network: what reset_stats_post_warmup must not touch
Physical(m) ==
    [queues |-> m.queues, server_busy |-> m.server_busy, events |-> m.events,
     clock |-> m.clock, warmup_count |-> m.warmup_count,
     cust_counter |-> m.cust_counter]

\* C11: reset_stats_post_warmup leaves queues, server_busy, the future event
\* list, clock, warmup_count and cust_counter as they were: applied to any
\* reachable engine state it changes none of them, and the step in which it
\* runs (an exit from station 4) changes the physical network exactly as an
\* exit without a reset does.
C11_ResetKeepsNetwork ==
    /\ [](Physical(reset_stats_post_warmup(Self)) = Physical(Self))
    /\ [][IsResetStep =>
            /\ queues' = [queues EXCEPT ![4] = Tail(@)]
            /\ server_busy' = [server_busy EXCEPT ![4] = (queues'[4] # <<>>)]
            /\ clock' = ret'.time
            /\ warmup_count' = warmup_count + 1
            /\ cust_counter' = cust_counter
            /\ \A i \in 2..Len(events) : \E j \in 1..Len(events') :
                   events'[j] = events[i]
            /\ Len(events') = Len(events) - 1
                   + (IF queues'[4] # <<>> THEN 1 ELSE 0)]_vars

C11_Witness ==
    /\ ~is_warming_up
    /\ ret.type = "DEPARTURE" /\ ret.queue_id = 4
    /\ stats = ZeroStats
    /\ Len(events) >= 2
    /\ \E s \in Stations : server_busy[s] /\ Len(queues[s]) >= 1

\* a step() call that returned the finished signal
IsFinishedCall == nsteps' = nsteps /\ ret' # ret

\* a reset() call
IsReset == nsteps > 0 /\ nsteps' = 0

\* C12: when the future event list is empty or completed_count has reached
\* the target, step() returns no event and changes nothing; and step()
\* processes an event only when neither holds.
C12_FinishedStepIsNoop ==
    /\ [][IsFinishedCall =>
            /\ (events = <<>> \/ completed_count >= MAX_COMPLETED)
            /\ ret' = NoEvent
            /\ UNCHANGED <<model_vars, config_vars, nsteps, log>>]_vars
    /\ [][IsStep =>
            ~(events = <<>> \/ completed_count >= MAX_COMPLETED)]_vars

C12_Witness ==
    /\ completed_count >= MAX_COMPLETED
    /\ ret = NoEvent
    /\ nsteps > 0
    /\ events # <<>>
    /\ \E s \in Stations : stats[s].L_accum > 0

\* C13: reset() after any steps gives the construction-time state: clock 0,
\* empty queues, idle servers, zero statistics and counters, warming up,
\* next customer id 1, and exactly one pending event, the ARRIVAL of
\* customer 1 at station 1.
C13_ResetRestoresConstruction ==
    [][IsReset =>
          /\ clock' = 0
          /\ queues' = [i \in Stations |-> <<>>]
          /\ server_busy' = [i \in Stations |-> FALSE]
          /\ stats' = ZeroStats
          /\ completed_count' = 0
          /\ total_response_time' = 0
          /\ warmup_count' = 0
          /\ is_warming_up'
          /\ steady_start_time' = 0
          /\ last_update' = 0
          /\ cust_counter' = 1
          /\ Len(events') = 1
          /\ events'[1].type = "ARRIVAL"
          /\ events'[1].queue_id = 1
          /\ events'[1].customer.id = 1
          /\ events'[1].time >= 0]_vars

\* a state a reset() would change in every respect: after warm-up, with
\* customers queued and several events pending
C13_Witness ==
    /\ nsteps > 0
    /\ ~is_warming_up
    /\ cust_counter > 2
    /\ completed_count > 0
    /\ Len(events) >= 2
    /\ \E s \in Stations : queues[s] # <<>>

Analysed == ana.status = "ok"

\* C14: for every valid routing table and source rate the analytical rates
\* satisfy lambda1 = source rate, lambda2 = p(1->2) lambda1,
\* lambda3 = p(1->3) lambda1 + p(4->3) lambda4 and lambda4 = lambda2 + lambda3
\* for the routing probabilities the simulation dispatches with (PROBS).
C14_FlowBalance ==
    Analysed =>
        LET l == ana.eff_lam
        IN  /\ l[1] = LAMBDA_SOURCE_RATE * RateScale
            /\ 100 * l[2] = PROBS.p1_to_2 * l[1]
            /\ 100 * l[3] = PROBS.p1_to_3 * l[1] + PROBS.p4_to_3 * l[4]
            /\ l[4] = l[2] + l[3]

\* C15: the analytical model never returns L, Lq, W and Wq when some
\* station has utilization rho = lambda / mu >= 1.
C15_UnstableIsRefused ==
    Analysed =>
        \A i \in Stations : ana.eff_lam[i] < MU_RATES[i] * RateScale

\* C16: for every threshold W >= 0, W = 0 included, warmup_count never
\* exceeds W.
C16_WarmupCountBounded == warmup_count <= WARM_UP_CUSTOMERS

IsDeparture == IsStep /\ ret'.type = "DEPARTURE"

\* where the departing customer went: a station whose queue received it, or EXIT
Destination ==
    LET q == ret'.queue_id
        got == {d \in Stations \ {q} : Len(queues'[d]) = Len(queues[d]) + 1}
    IN  IF got = {} THEN EXIT ELSE CHOOSE d \in got : TRUE

\* C17: an exit during warm-up increments warmup_count only; an exit after
\* warm-up increments completed_count by 1, adds clock - arrival_time of the
\* leaving customer to total_response_time and leaves warmup_count alone; a
\* departure routed to a station changes none of the three.
C17_ExitAccounting ==
    [][IsDeparture =>
          LET c == Head(queues[ret'.queue_id])
          IN  /\ (Destination = EXIT /\ is_warming_up) =>
                    /\ warmup_count' = warmup_count + 1
                    /\ completed_count' = completed_count
                    /\ total_response_time' = total_response_time
              /\ (Destination = EXIT /\ ~is_warming_up) =>
                    /\ completed_count' = completed_count + 1
                    /\ total_response_time' =
                           total_response_time + (clock' - c.arrival_time)
                    /\ warmup_count' = warmup_count
              /\ Destination # EXIT =>
                    /\ warmup_count' = warmup_count
                    /\ completed_count' = completed_count
                    /\ total_response_time' = total_response_time]_vars

C17_Witness ==
    /\ ret.type = "DEPARTURE" /\ ret.queue_id = 4
    /\ completed_count >= 2
    /\ total_response_time > 0
    /\ warmup_count = 2

\* the routing table as the claim states it, draws in hundredths
Routed(q, r) ==
    CASE q = 1 -> IF r < 40 THEN 2 ELSE 3
      [] q = 2 -> 4
      [] q = 3 -> 4
      [] q = 4 -> IF r < 90 THEN EXIT ELSE 3

\* C18: routing compares the draw with 0.4 at station 1 (below: to 2, else
\* to 3) and with 0.9 at station 4 (below: EXIT, else to 3), stations 2 and 3
\* always route to 4; so a customer leaves the network only from station 4
\* and never re-enters the station it departs from.
C18_RoutingTable ==
    /\ []((nsteps = 0 /\ PROBS = DefaultConfig.PROBS) =>
            \A q \in Stations, r \in 0..99 : route(q, r) = Routed(q, r))
    /\ [][(IsDeparture /\ rng.mode = "stub") =>
            Destination = Routed(ret'.queue_id, rng.r)]_vars
    /\ [][IsDeparture =>
            /\ Destination # ret'.queue_id
            /\ Destination = EXIT => ret'.queue_id = 4
            /\ queues'[ret'.queue_id] = Tail(queues[ret'.queue_id])]_vars

C18_Witness ==
    /\ rng.mode = "stub" /\ rng.r = 90
    /\ ret.type = "DEPARTURE" /\ ret.queue_id = 4
    /\ stats[4].Departures >= 2
    /\ Len(queues[3]) >= 1
    /\ warmup_count = 0

QueuedIds(s) == {queues[s][i].id : i \in 1..Len(queues[s])}

InNetwork == Len(queues[1]) + Len(queues[2]) + Len(queues[3]) + Len(queues[4])

\* C19: a departure routed to a station appends the same customer (same id,
\* same arrival_time) to the destination queue in the same step and counts
\* it in the destination's Arrivals; every customer that has entered and
\* not left is in exactly one queue, exactly once.
C19_TransferKeepsOwnership ==
    /\ [][(IsDeparture /\ Destination # EXIT) =>
            /\ queues'[Destination] =
                   Append(queues[Destination], Head(queues[ret'.queue_id]))
            /\ stats'[Destination].Arrivals =
                   (IF IsResetStep THEN 0 ELSE stats[Destination].Arrivals) + 1
            /\ clock' = ret'.time]_vars
    /\ [](\A s \in Stations :
            /\ Cardinality(QueuedIds(s)) = Len(queues[s])
            /\ \A t \in Stations \ {s} : QueuedIds(s) \cap QueuedIds(t) = {}
            /\ \A id \in QueuedIds(s) : id \in 1..(cust_counter - 1))
    /\ [](InNetwork = (cust_counter - 1) - warmup_count - completed_count)

\* a customer fed back from station 4 has joined the queue of station 3
C19_Witness ==
    /\ ret.type = "DEPARTURE" /\ ret.queue_id = 4
    /\ Len(queues[3]) >= 2
    /\ queues[3][Len(queues[3])] = ret.customer
    /\ ret.customer.arrival_time < clock
    /\ stats[3].Arrivals >= 2

\* C20: when a DEPARTURE event of station s is processed, queues[s] is
\* non-empty and its head is the event's customer, which is the one removed;
\* every pending DEPARTURE event references the head of its station's queue.
C20_FifoService ==
    /\ [][IsDeparture =>
            /\ queues[ret'.queue_id] # <<>>
            /\ Head(queues[ret'.queue_id]) = ret'.customer
            /\ queues'[ret'.queue_id] = Tail(queues[ret'.queue_id])]_vars
    /\ [](\A i \in 1..Len(events) :
            events[i].type = "DEPARTURE" =>
                /\ queues[events[i].queue_id] # <<>>
                /\ events[i].customer = Head(queues[events[i].queue_id]))

C20_Witness ==
    /\ ret.type = "DEPARTURE"
    /\ Len(queues[ret.queue_id]) >= 2
    /\ \E i \in 1..Len(events) :
          /\ events[i].type = "DEPARTURE"
          /\ events[i].queue_id = ret.queue_id
          /\ events[i].customer = Head(queues[ret.queue_id])
          /\ events[i].customer.id = ret.customer.id + 1

ArrivalEvents == {i \in 1..Len(events) : events[i].type = "ARRIVAL"}

\* C21: in every reachable state the future event list holds exactly one
\* ARRIVAL event, it is for station 1 and its customer id equals
\* cust_counter; every processed ARRIVAL event carries the id cust_counter,
\* joins queue 1 and advances cust_counter by one, so ids enter in
\* consecutive increasing order; the future event list is never empty.
C21_SingleSourceArrival ==
    /\ [](/\ Cardinality(ArrivalEvents) = 1
          /\ \A i \in ArrivalEvents :
                /\ events[i].queue_id = 1
                /\ events[i].customer.id = cust_counter)
    /\ [](events # <<>>)
    /\ [][(IsStep /\ ret'.type = "ARRIVAL") =>
            /\ ret'.queue_id = 1
            /\ ret'.customer.id = cust_counter
            /\ cust_counter' = cust_counter + 1
            /\ queues'[1] = Append(queues[1], ret'.customer)]_vars

\* the third external customer has entered while a departure is pending
C21_Witness ==
    /\ ret.type = "ARRIVAL" /\ ret.customer.id = 3
    /\ cust_counter = 4
    /\ Len(events) >= 2
    /\ \E i \in 1..Len(events) : events[i].type = "DEPARTURE"

\* C22: in every reachable state and for every station s,
\* L_accum[s] = Q_accum[s] + Busy_accum[s] and the three are non-negative;
\* a step() taken once warm-up has ended decreases none of them.
C22_AccumulatorIdentity ==
    /\ [](\A s \in Stations :
            /\ stats[s].L_accum = stats[s].Q_accum + stats[s].Busy_accum
            /\ stats[s].L_accum >= 0
            /\ stats[s].Q_accum >= 0
            /\ stats[s].Busy_accum >= 0)
    /\ [][(IsStep /\ ~is_warming_up) =>
            \A s \in Stations :
                /\ stats'[s].L_accum >= stats[s].L_accum
                /\ stats'[s].Q_accum >= stats[s].Q_accum
                /\ stats'[s].Busy_accum >= stats[s].Busy_accum]_vars

\* after warm-up a station has integrated both waiting and service time
C22_Witness ==
    /\ ~is_warming_up
    /\ \E s \in Stations :
          /\ stats[s].Q_accum > 0
          /\ stats[s].Busy_accum > 0
          /\ stats[s].L_accum > stats[s].Busy_accum

\* C23: run-to-completion terminates: under positive draws and fair routing
\* at station 4, repeating step() eventually reaches
\* completed_count = MAX_COMPLETED and stays there; completed_count never
\* exceeds MAX_COMPLETED, and the event list is not exhausted first.
C23_RunTerminates ==
    /\ [](completed_count <= MAX_COMPLETED)
    /\ [](finished(Self) => completed_count = MAX_COMPLETED)
    /\ <>[](completed_count = MAX_COMPLETED /\ ~is_warming_up)

\* the target is reached after a warm-up customer was discarded and a
\* customer was fed back from station 4 to station 3
C23_Witness ==
    /\ rng.mode = "fair"
    /\ WARM_UP_CUSTOMERS = 1 /\ MAX_COMPLETED = 2
    /\ completed_count = MAX_COMPLETED
    /\ warmup_count = 1
    /\ stats[4].Departures > completed_count
    /\ stats[3].Arrivals > 0
    /\ ret.type = "DEPARTURE" /\ ret.queue_id = 4

====
